---- MODULE Spec2Model ----
(***************************************************************************)
(* Model of scripts/metadata/utils: the OAuth token cache of               *)
(* DatabricksAuth, the scoped connection of LakebaseConnection and the     *)
(* PipelineRepository and SchemaManager operations built on it.            *)
(*                                                                         *)
(* The program is single-threaded and synchronous, so every public call    *)
(* is one action.  What happened inside the call (network requests,        *)
(* connect, commit, rollback, close, in order) is kept in the variable     *)
(* last, together with the state the call started from.                    *)
(*                                                                         *)
(* Exceptions are named by the place that raises them:                     *)
(*   "OAuthRequestFailed"    Exception(...) raised at auth.py:76           *)
(*   "KeyError"              response.json()["token_value"], auth.py:66;   *)
(*                           a pipeline dict lacking a key, db.py:33, 47   *)
(*   "LakebaseConnectFailed" Exception(...) raised at auth.py:142          *)
(*   "UnboundLocalError"     `if conn:` with conn never bound, auth.py:145 *)
(*   "DbError"               a psycopg2.Error raised by the driver         *)
(*   "BlockError"            any other Exception raised in a caller block  *)
(*   "InvalidField"          ValueError raised at db.py:138                *)
(*   "OSError"               open() of the SQL file, db.py:246             *)
(***************************************************************************)
EXTENDS Integers, Sequences, FiniteSets, TLC

VARIABLES
    now,             \* the wall clock, datetime.now(), in seconds
    token_lifetime,  \* DatabricksAuth.token_lifetime
    token,           \* DatabricksAuth._token
    token_expiry,    \* DatabricksAuth._token_expiry
    netCalls,        \* requests sent to the token endpoint so far
    store,           \* the committed rows of the pipelines table
    nextId,          \* the next value of the id sequence of the table
    schema,          \* whether the metadata schema and its table exist
    last             \* the last call: its arguments, pre-state and outcome

authVars == <<now, token_lifetime, token, token_expiry, netCalls>>
dbVars == <<store, nextId, schema>>
vars ==
    <<now, token_lifetime, token, token_expiry, netCalls, store, nextId, schema, last>>

(* ------------------------------ bounds -------------------------------- *)
MaxNow == 400        \* the clock stops here
TickSec == 100       \* seconds between two calls of the operator
MaxCalls == 3        \* token requests in one behaviour
MaxId == 5           \* ids the table's sequence hands out in one behaviour
ShortLifetime == 200
LongLifetime == 500
MaxLen == 2          \* records in one list passed to bulk_upsert

(* ------------------------- program constants -------------------------- *)
None == -1                  \* Python's None for _token and _token_expiry
RefreshThresholdSec == 300  \* timedelta(minutes=5)
RequestTimeoutSec == 10     \* timeout=10 of requests.post

Lifetimes == {ShortLifetime, RefreshThresholdSec, LongLifetime}

(* What the token endpoint can answer to one request. *)
Responses == {"ok", "network_error", "http_error", "not_json", "no_token_value"}

(* Seconds the clock moves while requests.post is waiting. *)
Delays == {0, RequestTimeoutSec}

(* ------------------------ DatabricksAuth ------------------------------ *)

(* The cache test with the boundary instant still served from the cache. *)
CacheFresh_upto(force_refresh) ==
    /\ ~force_refresh
    /\ token # None
    /\ token_expiry # None
    /\ now <= token_expiry - RefreshThresholdSec

(* The cache test without the force_refresh flag. *)
CacheFresh_unforced(force_refresh) ==
    /\ token # None
    /\ token_expiry # None
    /\ now < token_expiry - RefreshThresholdSec

(* The cache test without the five-minute safety window. *)
CacheFresh_until_expiry(force_refresh) ==
    /\ ~force_refresh
    /\ token # None
    /\ token_expiry # None
    /\ now < token_expiry

(* The cache test of get_oauth_token. *)
CacheFresh(force_refresh) ==
    /\ ~force_refresh
    /\ token # None
    /\ token_expiry # None
    /\ now < token_expiry - RefreshThresholdSec

(* The exception a response raises inside the try block, "none" if the     *)
(* request succeeds.  requests.post raises a RequestException on a network *)
(* error, raise_for_status an HTTPError, response.json() a                 *)
(* requests JSONDecodeError (all RequestException, wrapped at line 76);    *)
(* a body without "token_value" raises KeyError, which line 74 lets pass.  *)
RequestError(resp) ==
    CASE resp = "ok" -> "none"
      [] resp \in {"network_error", "http_error", "not_json"} -> "OAuthRequestFailed"
      [] resp = "no_token_value" -> "KeyError"

(* self._token = response.json()["token_value"]: the endpoint hands out a  *)
(* new, non-empty token for every request it grants; the token is named    *)
(* by the number of the request that produced it.                          *)
NewToken == netCalls + 1

(* The expiry with the safety window already taken off. *)
NewExpiry_early(read_at) == read_at + token_lifetime - RefreshThresholdSec

(* self._token_expiry = datetime.now() + timedelta(seconds=token_lifetime), *)
(* read_at being the clock once the response has arrived.                  *)
NewExpiry(read_at) == read_at + token_lifetime

(* get_oauth_token dropping the cached token when the request fails. *)
get_oauth_token_clear_on_failure(force_refresh, resp, delay) ==
    IF CacheFresh(force_refresh)
    THEN [ret |-> token, err |-> "none", token |-> token,
          expiry |-> token_expiry, now |-> now, calls |-> 0, resp |-> "-"]
    ELSE IF RequestError(resp) = "none"
    THEN [ret |-> NewToken, err |-> "none", token |-> NewToken,
          expiry |-> NewExpiry(now + delay), now |-> now + delay,
          calls |-> 1, resp |-> resp]
    ELSE [ret |-> None, err |-> RequestError(resp), token |-> None,
          expiry |-> None, now |-> now + delay, calls |-> 1,
          resp |-> resp]

(* get_oauth_token: the returned token, the exception, the cache and clock *)
(* it leaves and the number of requests it sent.                           *)
get_oauth_token(force_refresh, resp, delay) ==
    IF CacheFresh(force_refresh)
    THEN [ret |-> token, err |-> "none", token |-> token,
          expiry |-> token_expiry, now |-> now, calls |-> 0, resp |-> "-"]
    ELSE IF RequestError(resp) = "none"
    THEN [ret |-> NewToken, err |-> "none", token |-> NewToken,
          expiry |-> NewExpiry(now + delay), now |-> now + delay,
          calls |-> 1, resp |-> resp]
    ELSE [ret |-> None, err |-> RequestError(resp), token |-> token,
          expiry |-> token_expiry, now |-> now + delay, calls |-> 1,
          resp |-> resp]

(* invalidate_token clearing the expiry alone. *)
invalidate_token_expiry_only == [token |-> token, expiry |-> None]

(* invalidate_token: the cache it leaves. *)
invalidate_token == [token |-> None, expiry |-> None]

(* ------------------------- the pipelines table ------------------------ *)

Names == {"etl1", "etl2"}

(* A row of the table as the INSERT statements of db.py write it: the id   *)
(* comes from the table's sequence, config is stored as jsonb.             *)
Sample(n, id) ==
    [id |-> id, name |-> n, type |-> "dbt", schedule |-> "NULL",
     enabled |-> TRUE, config |-> <<"jsonb", "x1">>, owner |-> "bob",
     description |-> "NULL"]

RowsNamed(rows, n) == {r \in rows : r.name = n}

(* ------------------------ LakebaseConnection -------------------------- *)

(* What psycopg2 does at connect, commit and rollback: each succeeds or    *)
(* raises a psycopg2.Error.  One failing call per scope gives every        *)
(* outcome of get_connection: after a failed connect nothing else is       *)
(* called, and a failed commit is re-raised whatever the rollback does.    *)
OkIO == [connect |-> "ok", commit |-> "ok", rollback |-> "ok"]
IOs ==
    {OkIO, [OkIO EXCEPT !.connect = "DbError"], [OkIO EXCEPT !.commit = "DbError"],
     [OkIO EXCEPT !.rollback = "DbError"]}

(* What surrounds one call that opens a connection: the answer of the      *)
(* token endpoint and the driver.  When the cache serves the token the     *)
(* endpoint is not asked, and after a failed request the driver is not     *)
(* reached.  The time the request takes is left to GetToken.               *)
Envs ==
    {[resp |-> "ok", delay |-> 0, io |-> io] : io \in IOs}
    \cup (IF CacheFresh(FALSE) THEN {}
          ELSE {[resp |-> r, delay |-> 0, io |-> OkIO] : r \in Responses \ {"ok"}})

(* The driver faults that can show when the block ends with block_err:     *)
(* commit is called only after a block that returned, rollback only after  *)
(* one that raised, and neither after a failed request or connect.         *)
Reached(e, block_err) ==
    /\ (e.resp # "ok" \/ e.io.connect # "ok" \/ e.io.commit # "ok")
            => block_err = "none"
    /\ e.io.rollback # "ok" => block_err # "none"

(* The inner try with the commit in a finally clause: issued on every     *)
(* path, also after a block that raised.                                   *)
ExitScope_always_commit(block_err, io) ==
    IF io.commit = "ok"
    THEN [events |-> <<"commit">>, committed |-> TRUE, raised |-> block_err]
    ELSE [events |-> <<"commit", "rollback">>, committed |-> FALSE,
          raised |-> "DbError"]

(* The inner try of get_connection once the caller's block has ended with  *)
(* block_err ("none" when it returned): commit after the yield; any        *)
(* Exception, the commit's included, goes to rollback and is re-raised.    *)
ExitScope(block_err, io) ==
    IF block_err = "none"
    THEN IF io.commit = "ok"
         THEN [events |-> <<"commit">>, committed |-> TRUE, raised |-> "none"]
         ELSE [events |-> <<"commit", "rollback">>, committed |-> FALSE,
               raised |-> "DbError"]
    ELSE [events |-> <<"rollback">>, committed |-> FALSE,
          raised |-> IF io.rollback = "ok" THEN block_err ELSE "DbError"]

(* except psycopg2.Error as e: raise Exception("Failed to connect ...")    *)
OuterExcept(raised) ==
    IF raised = "DbError" THEN "LakebaseConnectFailed" ELSE raised

(* The close at the end of the try body instead of in finally: skipped    *)
(* when an exception is in flight.                                         *)
Finally_close_on_success(conn_bound, err) ==
    IF conn_bound /\ err = "none"
    THEN [events |-> <<"close">>, err |-> err, conn |-> "closed"]
    ELSE [events |-> <<>>, err |-> err, conn |-> IF conn_bound THEN "open" ELSE "unbound"]

(* finally: if conn: conn.close().  conn is bound by the assignment of     *)
(* line 117 only; reading it unbound raises UnboundLocalError, which       *)
(* replaces the exception in flight.                                       *)
Finally(conn_bound, err) ==
    IF conn_bound
    THEN [events |-> <<"close">>, err |-> err, conn |-> "closed"]
    ELSE [events |-> <<>>, err |-> "UnboundLocalError", conn |-> "unbound"]

(* token = self.auth.get_oauth_token() ... psycopg2.connect(...,           *)
(* password=token, ...): the password of a connect that was called, given  *)
(* the events of the scope.                                                *)
ConnectPassword(tok, events) ==
    IF \E i \in DOMAIN events : events[i] = "connect" THEN tok.ret ELSE None

(* get_connection around a caller's block.  tok is the outcome of          *)
(* get_oauth_token(), io what the driver does, blk the caller's block:     *)
(* blk.work is the table as the block leaves it inside its transaction,    *)
(* blk.err what the block raises.                                          *)
get_connection(tok, io, blk) ==
    LET request == IF tok.calls = 1 THEN <<"request">> ELSE <<>> IN
    IF tok.err # "none"
    THEN [err |-> tok.err, events |-> request, store |-> store,
          conn |-> "unbound", block |-> "notrun"]
    ELSE IF io.connect # "ok"
    THEN LET f == Finally(FALSE, OuterExcept("DbError")) IN
         [err |-> f.err, events |-> request \o <<"connect">> \o f.events,
          store |-> store, conn |-> f.conn, block |-> "notrun"]
    ELSE LET x == ExitScope(blk.err, io)
             f == Finally(TRUE, OuterExcept(x.raised)) IN
         [err |-> f.err,
          events |-> request \o <<"connect", "block">> \o x.events \o f.events,
          store |-> IF x.committed THEN blk.work ELSE store,
          conn |-> f.conn, block |-> blk.err]

(* ------------------------- PipelineRepository ------------------------- *)

allowed_fields == {"schedule", "enabled", "config", "owner", "description", "type"}

(* The field names a caller may pass to update. *)
Fields == allowed_fields \cup {"id", "name"}

(* The values a caller passes for a field.  A config is a Python dict or   *)
(* its JSON text.                                                          *)
UpdateValues(field) ==
    CASE field = "schedule" -> {"0 2 * * *"}
      [] field = "enabled" -> BOOLEAN
      [] field = "config" -> {<<"dict", "x2">>, <<"str", "x1">>}
      [] field = "owner" -> {"alice"}
      [] field = "description" -> {"nightly"}
      [] field = "type" -> {"databricks"}
      [] field = "id" -> {MaxId + 2}
      [] field = "name" -> {"etl9"}

(* json.dumps of a dict *)
json_dumps(value) == <<"str", value[2]>>

(* if field == 'config' and isinstance(value, dict): value = json.dumps(value) *)
UpdateParam(field, value) ==
    IF field = "config" /\ value[1] = "dict" THEN json_dumps(value) ELSE value

(* The value a column takes from a statement parameter: JSON text is       *)
(* parsed into the jsonb column, every other parameter is stored as it is. *)
ColumnValue(field, param) ==
    IF field = "config" THEN <<"jsonb", param[2]>> ELSE param

(* The UPDATE without its WHERE clause. *)
UpdateStatement_every_row(rows, name, field, param) ==
    {[r EXCEPT ![field] = ColumnValue(field, param)] : r \in rows}

(* UPDATE pipelines SET {field} = %s WHERE name = %s *)
UpdateStatement(rows, name, field, param) ==
    {IF r.name = name THEN [r EXCEPT ![field] = ColumnValue(field, param)] ELSE r
        : r \in rows}

(* The allow-list with the key columns in it. *)
FieldAllowed_any_column(field) == field \in allowed_fields \cup {"id", "name"}

(* The check of the field name at the head of update. *)
FieldAllowed(field) == field \in allowed_fields

(* update(name, field, value): tok, io as for get_connection, stmt_err     *)
(* what cursor.execute raises ("none" when the statement runs).            *)
update(name, field, value, tok, io, stmt_err) ==
    IF ~FieldAllowed(field)
    THEN [err |-> "InvalidField", ret |-> FALSE, events |-> <<>>, store |-> store,
          conn |-> "unbound", block |-> "notrun", calls |-> 0, entered |-> FALSE]
    ELSE LET param == UpdateParam(field, value)
             blk == IF stmt_err = "none"
                    THEN [work |-> UpdateStatement(store, name, field, param),
                          err |-> "none"]
                    ELSE [work |-> store, err |-> stmt_err]
             c == get_connection(tok, io, blk)
             rows_affected == Cardinality(RowsNamed(store, name)) IN
         [err |-> c.err, ret |-> (c.err = "none" /\ rows_affected > 0),
          events |-> c.events, store |-> c.store, conn |-> c.conn,
          block |-> c.block, calls |-> tok.calls, entered |-> TRUE]

(* The keys the INSERT statements of create and bulk_upsert look up in a   *)
(* pipeline dict: %(name)s ... %(description)s.                            *)
PipelineKeys ==
    {"name", "type", "schedule", "enabled", "config", "owner", "description"}

Variants == {"a", "b"}

(* The pipeline dicts a caller passes: keys is the set of keys the dict    *)
(* holds, config a Python dict.  The two variants differ in every mutable  *)
(* field.                                                                  *)
Pipeline(n, variant) ==
    IF variant = "a"
    THEN [keys |-> PipelineKeys, name |-> n, type |-> "dbt", schedule |-> "NULL",
          enabled |-> TRUE, config |-> <<"dict", "x1">>, owner |-> "bob",
          description |-> "NULL"]
    ELSE [keys |-> PipelineKeys, name |-> n, type |-> "databricks",
          schedule |-> "0 2 * * *", enabled |-> FALSE,
          config |-> <<"dict", "x2">>, owner |-> "alice",
          description |-> "nightly"]

(* A dict without the key k. *)
Without(p, k) == [p EXCEPT !.keys = @ \ {k}]

(* if isinstance(p.get('config'), dict): p['config'] = json.dumps(...)     *)
(* The dict the caller passed is changed in place.                         *)
SerializeConfig(p) ==
    IF "config" \in p.keys /\ p.config[1] = "dict"
    THEN [p EXCEPT !.config = json_dumps(@)]
    ELSE p

(* cursor.execute(query, p) binds the named placeholders from p before     *)
(* anything is sent: a key p lacks raises KeyError.                        *)
BindError(p) == IF PipelineKeys \subseteq p.keys THEN "none" ELSE "KeyError"

(* The row an INSERT writes from the bound dict p under the id the table   *)
(* assigns.                                                                *)
RowOf(p, id) ==
    [id |-> id, name |-> p.name, type |-> p.type, schedule |-> p.schedule,
     enabled |-> p.enabled, config |-> ColumnValue("config", p.config),
     owner |-> p.owner, description |-> p.description]

(* The unique constraint on pipelines.name that ON CONFLICT (name) names.  *)
NameTaken(rows, n) == RowsNamed(rows, n) # {}

(* INSERT INTO pipelines ... RETURNING id: the rows after the statement    *)
(* and what it raises.                                                     *)
InsertStatement(rows, p, id) ==
    IF NameTaken(rows, p.name)
    THEN [rows |-> rows, err |-> "DbError"]
    ELSE [rows |-> rows \cup {RowOf(p, id)}, err |-> "none"]

(* The upsert as DELETE followed by INSERT: the row gets a new id.         *)
UpsertStatement_reinsert(rows, p, id) ==
    {r \in rows : r.name # p.name} \cup {RowOf(p, id)}

(* The upsert as a plain INSERT into a table without the constraint.       *)
UpsertStatement_append(rows, p, id) == rows \cup {RowOf(p, id)}

(* The upsert with the first write winning: ON CONFLICT (name) DO NOTHING. *)
UpsertStatement_keep_first(rows, p, id) ==
    IF NameTaken(rows, p.name) THEN rows ELSE rows \cup {RowOf(p, id)}

(* INSERT ... ON CONFLICT (name) DO UPDATE SET the six mutable columns to  *)
(* the EXCLUDED values: the row found keeps its id and name.               *)
UpsertStatement(rows, p, id) ==
    IF NameTaken(rows, p.name)
    THEN {IF r.name = p.name
          THEN [r EXCEPT !.type = p.type, !.schedule = p.schedule,
                         !.enabled = p.enabled,
                         !.config = ColumnValue("config", p.config),
                         !.owner = p.owner, !.description = p.description]
          ELSE r : r \in rows}
    ELSE rows \cup {RowOf(p, id)}

(* The loop of bulk_upsert inside its transaction, from record i on.  rows *)
(* is the table as the statements so far left it, id the next value of the *)
(* id sequence, list the caller's list, fail_at the index of the statement *)
(* the server rejects (0 for none).  A statement that runs takes a value   *)
(* from the sequence whether it inserts or updates.                        *)
RECURSIVE UpsertLoop(_, _, _, _, _)
UpsertLoop(rows, id, list, i, fail_at) ==
    IF i > Len(list)
    THEN [work |-> rows, err |-> "none", list |-> list, nextId |-> id]
    ELSE LET p == SerializeConfig(list[i])
             l == [list EXCEPT ![i] = p] IN
         IF BindError(p) # "none"
         THEN [work |-> rows, err |-> BindError(p), list |-> l, nextId |-> id]
         ELSE IF i = fail_at
         THEN [work |-> rows, err |-> "DbError", list |-> l, nextId |-> id]
         ELSE UpsertLoop(UpsertStatement(rows, p, id), id + 1, l, i + 1, fail_at)

(* bulk_upsert(pipelines): one scoped connection around the loop; returns  *)
(* len(pipelines).  tok and io as for get_connection.  block_err is what   *)
(* the loop raises when it runs, wrote whether a statement of it changed  *)
(* the table inside the transaction.                                       *)
bulk_upsert(pipelines, tok, io, fail_at) ==
    LET Result(blk, c) ==
            [err |-> c.err, ret |-> IF c.err = "none" THEN Len(pipelines) ELSE None,
             events |-> c.events, store |-> c.store, conn |-> c.conn,
             block |-> c.block, calls |-> tok.calls, block_err |-> blk.err,
             wrote |-> (c.block # "notrun" /\ blk.work # store),
             list_after |-> IF c.block # "notrun" THEN blk.list ELSE pipelines,
             nextId |-> IF c.block # "notrun" THEN blk.nextId ELSE nextId]
        Scoped(blk) ==
            Result(blk, get_connection(tok, io, [work |-> blk.work, err |-> blk.err]))
    IN  Scoped(UpsertLoop(store, nextId, pipelines, 1, fail_at))

(* create(pipeline).  The log line at the head reads pipeline['name']; the *)
(* config is serialized in the caller's dict; the INSERT runs in one       *)
(* scoped connection and the id it returns is the result.  stmt_err is     *)
(* what the server raises for the statement apart from the unique          *)
(* constraint ("none" when it runs).  A statement that reaches the server  *)
(* takes a value from the id sequence.                                     *)
create(pipeline, tok, io, stmt_err) ==
    IF "name" \notin pipeline.keys
    THEN [err |-> "KeyError", ret |-> None, events |-> <<>>, store |-> store,
          conn |-> "unbound", block |-> "notrun", calls |-> 0, entered |-> FALSE,
          block_err |-> "none", list_after |-> pipeline, nextId |-> nextId]
    ELSE LET p == SerializeConfig(pipeline)
             ins == InsertStatement(store, p, nextId)
             blk == IF BindError(p) # "none"
                    THEN [work |-> store, err |-> BindError(p)]
                    ELSE IF stmt_err # "none"
                    THEN [work |-> store, err |-> stmt_err]
                    ELSE [work |-> ins.rows, err |-> ins.err]
             c == get_connection(tok, io, blk)
             sent == c.block # "notrun" /\ BindError(p) = "none" IN
         [err |-> c.err, ret |-> IF c.err = "none" THEN nextId ELSE None,
          events |-> c.events, store |-> c.store, conn |-> c.conn,
          block |-> c.block, calls |-> tok.calls, entered |-> TRUE,
          block_err |-> blk.err, list_after |-> p,
          nextId |-> IF sent THEN nextId + 1 ELSE nextId]

(* The config column handed back as the JSON text it was written from.    *)
FetchedDict_as_text(r) == [r EXCEPT !.config = <<"str", @[2]>>]

(* What a RealDictCursor hands back for a row: the jsonb column comes as a *)
(* Python dict.                                                            *)
FetchedDict(r) == [r EXCEPT !.config = <<"dict", @[2]>>]

(* cursor.fetchone() of SELECT * FROM pipelines WHERE name = %s, as the    *)
(* set of the dicts returned: empty for None.                              *)
FetchOne(rows) ==
    IF rows = {} THEN {} ELSE {FetchedDict(CHOOSE r \in rows : TRUE)}

(* get_by_name(name): dict(result) if result else None *)
get_by_name(name, tok, io, stmt_err) ==
    LET c == get_connection(tok, io, [work |-> store, err |-> stmt_err]) IN
    [err |-> c.err, ret |-> None, events |-> c.events, store |-> c.store,
     conn |-> c.conn, block |-> c.block, calls |-> tok.calls,
     rows |-> IF c.err = "none" THEN FetchOne(RowsNamed(store, name)) ELSE {}]

(* DELETE FROM pipelines WHERE name = %s *)
DeleteStatement(rows, name) == {r \in rows : r.name # name}

(* delete reporting success whenever the statement ran. *)
delete_rowcount_ignored(name, tok, io, stmt_err) ==
    LET blk == IF stmt_err = "none"
               THEN [work |-> DeleteStatement(store, name), err |-> "none"]
               ELSE [work |-> store, err |-> stmt_err]
        c == get_connection(tok, io, blk) IN
    [err |-> c.err, ret |-> (c.err = "none"),
     events |-> c.events, store |-> c.store, conn |-> c.conn,
     block |-> c.block, calls |-> tok.calls]

(* delete(name): true when cursor.rowcount > 0 *)
delete(name, tok, io, stmt_err) ==
    LET blk == IF stmt_err = "none"
               THEN [work |-> DeleteStatement(store, name), err |-> "none"]
               ELSE [work |-> store, err |-> stmt_err]
        c == get_connection(tok, io, blk)
        rows_affected == Cardinality(RowsNamed(store, name)) IN
    [err |-> c.err, ret |-> (c.err = "none" /\ rows_affected > 0),
     events |-> c.events, store |-> c.store, conn |-> c.conn,
     block |-> c.block, calls |-> tok.calls]

(* The handler that lets database errors only be caught.                  *)
Caught_db_only(raised) == raised \in {"DbError", "LakebaseConnectFailed"}

(* except Exception as e: every error kind of the model is an Exception.   *)
Caught(raised) == TRUE

(* test_connection(): SELECT 1 in one scoped connection, inside try.       *)
(* probe is the value the server answers, close_err what conn.close()      *)
(* raises; the return of result[0] == 1 is replaced by whatever the exit   *)
(* of the scope raises, and the handler turns what it catches into False.  *)
test_connection(tok, io, stmt_err, probe, close_err) ==
    LET c == get_connection(tok, io, [work |-> store, err |-> stmt_err])
        close_failed == c.conn = "closed" /\ close_err # "none"
        raised == IF close_failed THEN close_err ELSE c.err IN
    [err |-> IF Caught(raised) THEN "none" ELSE raised,
     ret |-> (raised = "none" /\ probe = 1),
     events |-> IF close_failed THEN c.events \o <<"close_error">> ELSE c.events,
     store |-> c.store, conn |-> c.conn, block |-> c.block, calls |-> tok.calls]

(* get_by_id(pipeline_id): SELECT * FROM pipelines WHERE id = %s *)
get_by_id(pipeline_id, tok, io, stmt_err) ==
    LET c == get_connection(tok, io, [work |-> store, err |-> stmt_err]) IN
    [err |-> c.err, ret |-> None, events |-> c.events, store |-> c.store,
     conn |-> c.conn, block |-> c.block, calls |-> tok.calls,
     rows |-> IF c.err = "none"
              THEN FetchOne({r \in store : r.id = pipeline_id}) ELSE {}]

(* ORDER BY name over the names the model uses. *)
NameOrder == <<"etl1", "etl2">>

(* list_all(enabled_only): SELECT * FROM pipelines [WHERE enabled = TRUE]  *)
(* ORDER BY name, as the list of dicts returned.                           *)
Listing(rows, enabled_only) ==
    LET sel == {r \in rows : ~enabled_only \/ r.enabled}
        present == SelectSeq(NameOrder, LAMBDA n : RowsNamed(sel, n) # {}) IN
    [i \in 1..Len(present) |->
        FetchedDict(CHOOSE r \in sel : r.name = present[i])]

list_all(enabled_only, tok, io, stmt_err) ==
    LET c == get_connection(tok, io, [work |-> store, err |-> stmt_err]) IN
    [err |-> c.err, events |-> c.events, store |-> c.store,
     ret |-> IF c.err = "none" THEN Listing(store, enabled_only) ELSE <<>>,
     conn |-> c.conn, block |-> c.block, calls |-> tok.calls]

(* ---------------------------- SchemaManager --------------------------- *)

(* What schema.sql leaves when it runs: the schema with its pipelines      *)
(* table; a table that is there keeps its rows.  The ids of a table made   *)
(* anew are numbered on from those handed out before, so that an id names  *)
(* one row over a whole behaviour.                                         *)
SchemaSql(sch, rows) ==
    IF sch THEN [schema |-> TRUE, rows |-> rows] ELSE [schema |-> TRUE, rows |-> {}]

(* execute_sql_file(filepath): read the file, then run it in one scoped    *)
(* connection.  file_err is what open() raises.                            *)
execute_sql_file(file_err, tok, io, stmt_err) ==
    IF file_err # "none"
    THEN [err |-> file_err, ret |-> None, events |-> <<>>, store |-> store,
          conn |-> "unbound", block |-> "notrun", calls |-> 0, entered |-> FALSE,
          schema |-> schema]
    ELSE LET after == SchemaSql(schema, store)
             blk == IF stmt_err = "none" THEN [work |-> after.rows, err |-> "none"]
                    ELSE [work |-> store, err |-> stmt_err]
             c == get_connection(tok, io, blk) IN
         [err |-> c.err, ret |-> None, events |-> c.events, store |-> c.store,
          conn |-> c.conn, block |-> c.block, calls |-> tok.calls,
          entered |-> TRUE,
          schema |-> IF c.err = "none" THEN after.schema ELSE schema]

(* drop_schema(): DROP SCHEMA IF EXISTS metadata CASCADE *)
drop_schema(tok, io, stmt_err) ==
    LET blk == IF stmt_err = "none" THEN [work |-> {}, err |-> "none"]
               ELSE [work |-> store, err |-> stmt_err]
        c == get_connection(tok, io, blk) IN
    [err |-> c.err, ret |-> None, events |-> c.events, store |-> c.store,
     conn |-> c.conn, block |-> c.block, calls |-> tok.calls,
     schema |-> IF c.err = "none" THEN FALSE ELSE schema]

(* schema_exists(): SELECT EXISTS (... information_schema.schemata ...) *)
schema_exists(tok, io, stmt_err) ==
    LET c == get_connection(tok, io, [work |-> store, err |-> stmt_err]) IN
    [err |-> c.err, ret |-> (c.err = "none" /\ schema), events |-> c.events,
     store |-> c.store, conn |-> c.conn, block |-> c.block, calls |-> tok.calls]

(* get_pipeline_count(): SELECT COUNT( * ) FROM pipelines *)
get_pipeline_count(tok, io, stmt_err) ==
    LET c == get_connection(tok, io, [work |-> store, err |-> stmt_err]) IN
    [err |-> c.err, ret |-> IF c.err = "none" THEN Cardinality(store) ELSE None,
     events |-> c.events, store |-> c.store, conn |-> c.conn,
     block |-> c.block, calls |-> tok.calls]

(* ------------------------------ actions ------------------------------- *)

(* What the server raises for a statement on the pipelines table: nothing *)
(* or a psycopg2.Error; always an error when the table is not there.       *)
StmtErrs == IF schema THEN {"none", "DbError"} ELSE {"DbError"}

(* The statement of a bulk_upsert the server rejects, 0 for none: the last *)
(* one of the list, after the statements before it ran (a failure earlier  *)
(* in the list comes from a dict that lacks a key); the first one when the *)
(* table is not there.                                                     *)
FailAts(pipelines) ==
    IF schema THEN {0, Len(pipelines)}
    ELSE IF pipelines = <<>> THEN {0} ELSE {1}

(* The runner command in progress: cmd the command typed, pc the line of   *)
(* cmd_init or cmd_reset it has reached ("idle" outside a command), trace  *)
(* the answers read from the operator and the schema_manager and           *)
(* pipeline_repo calls made since the command started, in order.           *)
NoCommand == [cmd |-> "-", pc |-> "idle", trace |-> <<>>]

Called(op) == [kind |-> "call", what |-> op]

Answered(prompt, answer) == [kind |-> prompt, what |-> answer]

(* Where a command goes on after a call it made returned r or raised: an   *)
(* exception leaves cmd_init and cmd_reset and ends in main; a true        *)
(* schema_exists leads to the recreate prompt, a false one straight to the *)
(* schema script; drop_schema of cmd_init to the script, the one of        *)
(* cmd_reset to cmd_init; the script to the examples file; cmd_seed ends   *)
(* the command.                                                            *)
CliStep(op, r) ==
    LET c == last.cli
        t == Append(c.trace, Called(op))
    IN  IF c.pc = "idle" THEN c
        ELSE IF r.err # "none" THEN [c EXCEPT !.pc = "idle", !.trace = t]
        ELSE [c EXCEPT !.trace = t,
                       !.pc = CASE c.pc = "schema_exists" ->
                                       IF r.ret THEN "recreate" ELSE "execute_sql_file"
                                [] c.pc = "init_drop" -> "execute_sql_file"
                                [] c.pc = "reset_drop" -> "schema_exists"
                                [] c.pc = "execute_sql_file" -> "examples"
                                [] OTHER -> "idle"]

(* The record of a call: op and arguments, the cache and clock it started  *)
(* from, the token requests it sent, what it returned or raised, the       *)
(* connection events in order, and how its block ended.  A get_token call  *)
(* keeps, in prev_*, the call made before it, a get_by_name call the       *)
(* create, disable or delete that returned just before it.  list holds the *)
(* pipeline dicts passed to create or bulk_upsert, list_after the same     *)
(* dicts as the call leaves them, rows what a query returned, password the *)
(* password handed to psycopg2.connect, cli the runner command the call    *)
(* belongs to.                                                             *)
Call(op) ==
    [op |-> op, force |-> FALSE, name |-> "-", field |-> "-", value |-> "-",
     pre_token |-> token, pre_expiry |-> token_expiry, pre_now |-> now,
     end_now |-> now, resp |-> "-",
     calls |-> 0, ret |-> None, err |-> "none", events |-> <<>>,
     conn |-> "unbound", block |-> "notrun", wrote |-> FALSE,
     prev_op |-> "-", prev_calls |-> 0, prev_err |-> "none",
     list |-> <<>>, list_after |-> <<>>, rows |-> {}, password |-> None,
     cli |-> NoCommand]

NoCall ==
    [op |-> "init", force |-> FALSE, name |-> "-", field |-> "-", value |-> "-",
     pre_token |-> None, pre_expiry |-> None, pre_now |-> 0,
     end_now |-> 0, resp |-> "-",
     calls |-> 0, ret |-> None, err |-> "none", events |-> <<>>,
     conn |-> "unbound", block |-> "notrun", wrote |-> FALSE,
     prev_op |-> "-", prev_calls |-> 0, prev_err |-> "none",
     list |-> <<>>, list_after |-> <<>>, rows |-> {}, password |-> None,
     cli |-> NoCommand]

Init ==
    /\ now = 0
    /\ token_lifetime \in Lifetimes
    /\ token = None
    /\ token_expiry = None
    /\ netCalls = 0
    /\ store = {}
    /\ nextId = 1
    /\ schema = TRUE
    /\ last = NoCall

(* What a call leaves in the token cache, the clock and the request count. *)
AuthAfter(tok) ==
    /\ netCalls + tok.calls <= MaxCalls
    /\ tok.now <= MaxNow
    /\ token' = tok.token
    /\ token_expiry' = tok.expiry
    /\ now' = tok.now
    /\ netCalls' = netCalls + tok.calls
    /\ UNCHANGED token_lifetime

(* auth.get_oauth_token(force_refresh) called directly. *)
GetToken ==
    \E force_refresh \in BOOLEAN, resp \in Responses, delay \in Delays :
        \E r \in {get_oauth_token(force_refresh, resp, delay)} :
            /\ AuthAfter(r)
            /\ last' = [Call("get_token") EXCEPT !.force = force_refresh,
                            !.calls = r.calls, !.ret = r.ret, !.err = r.err,
                            !.end_now = r.now, !.resp = r.resp,
                            !.events = IF r.calls = 1 THEN <<"request">> ELSE <<>>,
                            !.prev_op = last.op, !.prev_calls = last.calls,
                            !.prev_err = last.err]
            /\ UNCHANGED dbVars

(* auth.invalidate_token() *)
Invalidate ==
    /\ token' = invalidate_token.token
    /\ token_expiry' = invalidate_token.expiry
    /\ last' = Call("invalidate")
    /\ UNCHANGED <<now, token_lifetime, netCalls, store, nextId, schema>>

(* Time passes between two calls; last keeps the call made before.        *)
Tick ==
    /\ now + TickSec <= MaxNow
    /\ now' = now + TickSec
    /\ UNCHANGED <<token_lifetime, token, token_expiry, netCalls, store, nextId, schema,
                   last>>

(* A caller's block under get_connection, as in its docstring: it inserts  *)
(* a row named n and then returns or raises after.  The insert of a name   *)
(* the table holds fails on the unique constraint and writes nothing.      *)
ScopedBlock ==
    \E e \in Envs, n \in Names, after \in {"none", "DbError", "BlockError"} :
        LET dup == RowsNamed(store, n) # {}
            blk == IF dup THEN [work |-> store, err |-> "DbError"]
                   ELSE [work |-> store \cup {Sample(n, nextId)}, err |-> after]
        IN  /\ nextId <= MaxId
            /\ dup => after = "DbError"
            /\ Reached(e, blk.err)
            /\ \E tok \in {get_oauth_token(FALSE, e.resp, e.delay)} :
                 \E c \in {get_connection(tok, e.io, blk)} :
                    /\ AuthAfter(tok)
                    /\ store' = c.store
                    /\ nextId' = IF c.block = "notrun" THEN nextId ELSE nextId + 1
                    /\ last' = [Call("scoped") EXCEPT !.name = n,
                                    !.end_now = tok.now, !.resp = tok.resp,
                                    !.calls = tok.calls, !.ret = tok.ret,
                                    !.err = c.err, !.events = c.events,
                                    !.conn = c.conn, !.block = c.block,
                                    !.wrote = (c.block # "notrun" /\ ~dup),
                                    !.password = ConnectPassword(tok, c.events)]
                    /\ UNCHANGED schema

(* The token provider alone, under a moving clock. *)
Next == GetToken \/ Invalidate \/ Tick

Spec == Init /\ [][Next]_vars

(* The scoped connection around arbitrary caller blocks. *)
NextConn == ScopedBlock \/ Invalidate

SpecConn == Init /\ [][NextConn]_vars

(* ---------------- the repository over a populated table --------------- *)

InitRepo ==
    /\ now = 0
    /\ token_lifetime = LongLifetime
    /\ token = None
    /\ token_expiry = None
    /\ netCalls = 0
    /\ store = {Sample("etl1", 1)}
    /\ nextId = 2
    /\ schema = TRUE
    /\ last = NoCall

UpdateCall(op, name, field, value) ==
    \E e \in Envs, stmt_err \in StmtErrs :
        /\ Reached(e, stmt_err)
        /\ \E tok \in {get_oauth_token(FALSE, e.resp, e.delay)} :
             \E u \in {update(name, field, value, tok, e.io, stmt_err)} :
                /\ IF u.entered THEN AuthAfter(tok) ELSE UNCHANGED authVars
                /\ store' = u.store
                /\ last' = [Call(op) EXCEPT !.name = name, !.field = field,
                                !.end_now = IF u.entered THEN tok.now ELSE now,
                                !.resp = IF u.entered THEN tok.resp ELSE "-",
                                !.value = value, !.calls = u.calls, !.ret = u.ret,
                                !.err = u.err, !.events = u.events,
                                !.conn = u.conn, !.block = u.block,
                                !.password = ConnectPassword(tok, u.events)]
                /\ UNCHANGED <<nextId, schema>>

(* repo.update(name, field, value) *)
Update ==
    \E name \in Names, field \in Fields :
        \E value \in UpdateValues(field) : UpdateCall("update", name, field, value)

(* repo.enable(name) *)
Enable == \E name \in Names : UpdateCall("enable", name, "enabled", TRUE)

(* repo.disable(name) *)
Disable == \E name \in Names : UpdateCall("disable", name, "enabled", FALSE)

NextRepo == Update \/ Enable \/ Disable

SpecRepo == InitRepo /\ [][NextRepo]_vars

(* ------------------------- seeding the table -------------------------- *)

(* The dicts of a seed list: complete ones, and one that lacks a key.      *)
BulkRecords ==
    {Pipeline("etl1", v) : v \in Variants}
        \cup {Pipeline("etl2", "a"), Without(Pipeline("etl2", "a"), "owner")}

(* The lists a caller submits. *)
BulkLists == UNION {[1..n -> BulkRecords] : n \in 0..MaxLen}

(* What one repository call that entered get_connection leaves in last.    *)
Outcome(op, tok, r) ==
    [Call(op) EXCEPT !.end_now = tok.now, !.resp = tok.resp, !.calls = r.calls,
                     !.ret = r.ret, !.err = r.err, !.events = r.events,
                     !.conn = r.conn, !.block = r.block,
                     !.password = ConnectPassword(tok, r.events),
                     !.cli = CliStep(op, r)]

BulkUpsertCall(pipelines) ==
    \E e \in Envs, fail_at \in FailAts(pipelines) :
        /\ nextId + Len(pipelines) <= MaxId + 1
        /\ \E tok \in {get_oauth_token(FALSE, e.resp, e.delay)} :
             \E b \in {bulk_upsert(pipelines, tok, e.io, fail_at)} :
                /\ Reached(e, b.block_err)
                /\ AuthAfter(tok)
                /\ store' = b.store
                /\ nextId' = b.nextId
                /\ last' = [Outcome("bulk_upsert", tok, b) EXCEPT
                                !.list = pipelines, !.list_after = b.list_after,
                                !.wrote = b.wrote]
                /\ UNCHANGED schema

(* repo.bulk_upsert(list) on a list loaded from a seed file. *)
BulkUpsert == \E pipelines \in BulkLists : BulkUpsertCall(pipelines)

(* repo.bulk_upsert(list) on the list object the call before processed.    *)
BulkUpsertAgain ==
    /\ last.op = "bulk_upsert"
    /\ BulkUpsertCall(last.list_after)

NextBulk == BulkUpsert \/ BulkUpsertAgain

(* A table of one row whose sequence has four ids left. *)
InitBulk ==
    /\ now = 0
    /\ token_lifetime = LongLifetime
    /\ token = None
    /\ token_expiry = None
    /\ netCalls = 0
    /\ store = {Sample("etl1", MaxId - 4)}
    /\ nextId = MaxId - 3
    /\ schema = TRUE
    /\ last = NoCall

SpecBulk == InitBulk /\ [][NextBulk]_vars

(* --------------------- create, read, update, delete ------------------- *)

(* The dicts a caller passes to create: complete ones, and ones that lack  *)
(* a key.                                                                  *)
CreateRecords ==
    {Pipeline(n, v) : n \in Names, v \in Variants}
        \cup {Without(Pipeline("etl1", "a"), k) : k \in {"name", "type", "config"}}

(* An empty table whose sequence has three ids left. *)
InitCrud ==
    /\ now = 0
    /\ token_lifetime = LongLifetime
    /\ token = None
    /\ token_expiry = None
    /\ netCalls = 0
    /\ store = {}
    /\ nextId = MaxId - 2
    /\ schema = TRUE
    /\ last = NoCall

(* repo.create(pipeline) *)
Create ==
    \E pipeline \in CreateRecords, e \in Envs, stmt_err \in StmtErrs :
        /\ nextId <= MaxId
        /\ \E tok \in {get_oauth_token(FALSE, e.resp, e.delay)} :
             \E c \in {create(pipeline, tok, e.io, stmt_err)} :
                /\ Reached(e, c.block_err)
                /\ IF c.entered THEN AuthAfter(tok) ELSE UNCHANGED authVars
                /\ store' = c.store
                /\ nextId' = c.nextId
                /\ last' = [Outcome("create", tok, c) EXCEPT
                                !.end_now = IF c.entered THEN tok.now ELSE now,
                                !.resp = IF c.entered THEN tok.resp ELSE "-",
                                !.name = IF "name" \in pipeline.keys
                                         THEN pipeline.name ELSE "-",
                                !.list = <<pipeline>>,
                                !.list_after = <<c.list_after>>]
                /\ UNCHANGED schema

(* repo.delete(name) *)
Delete ==
    \E name \in Names, e \in Envs, stmt_err \in StmtErrs :
        /\ Reached(e, stmt_err)
        /\ \E tok \in {get_oauth_token(FALSE, e.resp, e.delay)} :
             \E d \in {delete(name, tok, e.io, stmt_err)} :
                /\ AuthAfter(tok)
                /\ store' = d.store
                /\ last' = [Outcome("delete", tok, d) EXCEPT !.name = name]
                /\ UNCHANGED <<nextId, schema>>

(* repo.get_by_name(name) *)
GetByName ==
    \E name \in Names, e \in Envs, stmt_err \in StmtErrs :
        /\ Reached(e, stmt_err)
        /\ \E tok \in {get_oauth_token(FALSE, e.resp, e.delay)} :
             \E g \in {get_by_name(name, tok, e.io, stmt_err)} :
                /\ AuthAfter(tok)
                /\ last' = [Outcome("get_by_name", tok, g) EXCEPT
                                !.name = name, !.rows = g.rows,
                                !.prev_op = IF last.op \in {"create", "disable", "delete"}
                                                 /\ last.err = "none"
                                            THEN last.op ELSE "-"]
                /\ UNCHANGED dbVars

(* repo.update(name, field, value) on one data column and one key column. *)
UpdateColumn ==
    \E name \in Names, field \in {"owner", "name"} :
        \E value \in UpdateValues(field) : UpdateCall("update", name, field, value)

(* repo.bulk_upsert(list) on lists over two of the dicts. *)
CrudLists ==
    UNION {[1..n -> {Pipeline("etl1", "b"), Pipeline("etl2", "a")}] : n \in 1..MaxLen}

BulkUpsertFew == \E pipelines \in CrudLists : BulkUpsertCall(pipelines)

(* Any sequence of the calls that write the table, from an empty table.    *)
NextCrud == Create \/ BulkUpsertFew \/ UpdateColumn \/ Delete

SpecCrud == InitCrud /\ [][NextCrud]_vars

(* The round trip of one pipeline: created, read, disabled, deleted.       *)
NextRound == Create \/ GetByName \/ Disable \/ Delete

SpecRound == InitCrud /\ [][NextRound]_vars

(* A table with a second row, under a name no call of the model passes.    *)
InitPair ==
    /\ now = 0
    /\ token_lifetime = LongLifetime
    /\ token = None
    /\ token_expiry = None
    /\ netCalls = 0
    /\ store = {Sample("etl1", 1), Sample("etl0", 2)}
    /\ nextId = 3
    /\ schema = TRUE
    /\ last = NoCall

NextPair == Update \/ Enable \/ Disable \/ Delete

SpecPair == InitPair /\ [][NextPair]_vars

(* ------------------- every operation of the layer --------------------- *)

(* lakebase.test_connection() *)
TestConnection ==
    \E e \in Envs, stmt_err \in {"none", "DbError"}, probe \in {0, 1},
       close_err \in {"none", "DbError"} :
        /\ Reached(e, stmt_err)
        /\ probe # 1 => (stmt_err = "none" /\ e.resp = "ok" /\ e.io = OkIO)
        /\ \E tok \in {get_oauth_token(FALSE, e.resp, e.delay)} :
             \E t \in {test_connection(tok, e.io, stmt_err, probe, close_err)} :
                /\ close_err # "none" => t.conn = "closed"
                /\ AuthAfter(tok)
                /\ last' = [Outcome("test_connection", tok, t) EXCEPT !.value = probe]
                /\ UNCHANGED dbVars

(* repo.get_by_id(pipeline_id) *)
GetById ==
    \E pipeline_id \in {MaxId - 1, MaxId + 1}, e \in Envs, stmt_err \in StmtErrs :
        /\ Reached(e, stmt_err)
        /\ \E tok \in {get_oauth_token(FALSE, e.resp, e.delay)} :
             \E g \in {get_by_id(pipeline_id, tok, e.io, stmt_err)} :
                /\ AuthAfter(tok)
                /\ last' = [Outcome("get_by_id", tok, g) EXCEPT
                                !.value = pipeline_id, !.rows = g.rows]
                /\ UNCHANGED dbVars

(* repo.list_all(enabled_only) *)
ListAll ==
    \E enabled_only \in BOOLEAN, e \in Envs, stmt_err \in StmtErrs :
        /\ Reached(e, stmt_err)
        /\ \E tok \in {get_oauth_token(FALSE, e.resp, e.delay)} :
             \E l \in {list_all(enabled_only, tok, e.io, stmt_err)} :
                /\ AuthAfter(tok)
                /\ last' = [Outcome("list_all", tok, l) EXCEPT !.value = enabled_only]
                /\ UNCHANGED dbVars

(* schema_manager.execute_sql_file(schema.sql) *)
ExecuteSqlFile ==
    \E file_err \in {"none", "OSError"}, e \in Envs, stmt_err \in {"none", "DbError"} :
        /\ Reached(e, stmt_err)
        /\ \E tok \in {get_oauth_token(FALSE, e.resp, e.delay)} :
             \E x \in {execute_sql_file(file_err, tok, e.io, stmt_err)} :
                /\ IF x.entered THEN AuthAfter(tok) ELSE UNCHANGED authVars
                /\ store' = x.store
                /\ schema' = x.schema
                /\ UNCHANGED nextId
                /\ last' = [Outcome("execute_sql_file", tok, x) EXCEPT
                                !.end_now = IF x.entered THEN tok.now ELSE now,
                                !.resp = IF x.entered THEN tok.resp ELSE "-"]

(* schema_manager.drop_schema() *)
DropSchema ==
    \E e \in Envs, stmt_err \in {"none", "DbError"} :
        /\ Reached(e, stmt_err)
        /\ \E tok \in {get_oauth_token(FALSE, e.resp, e.delay)} :
             \E d \in {drop_schema(tok, e.io, stmt_err)} :
                /\ AuthAfter(tok)
                /\ store' = d.store
                /\ schema' = d.schema
                /\ UNCHANGED nextId
                /\ last' = Outcome("drop_schema", tok, d)

(* schema_manager.schema_exists() *)
SchemaExists ==
    \E e \in Envs, stmt_err \in {"none", "DbError"} :
        /\ Reached(e, stmt_err)
        /\ \E tok \in {get_oauth_token(FALSE, e.resp, e.delay)} :
             \E x \in {schema_exists(tok, e.io, stmt_err)} :
                /\ AuthAfter(tok)
                /\ last' = Outcome("schema_exists", tok, x)
                /\ UNCHANGED dbVars

(* schema_manager.get_pipeline_count() *)
GetPipelineCount ==
    \E e \in Envs, stmt_err \in StmtErrs :
        /\ Reached(e, stmt_err)
        /\ \E tok \in {get_oauth_token(FALSE, e.resp, e.delay)} :
             \E x \in {get_pipeline_count(tok, e.io, stmt_err)} :
                /\ AuthAfter(tok)
                /\ last' = Outcome("get_pipeline_count", tok, x)
                /\ UNCHANGED dbVars

(* A table whose sequence has handed out all ids but the last one.         *)
InitOps ==
    /\ now = 0
    /\ token_lifetime = LongLifetime
    /\ token = None
    /\ token_expiry = None
    /\ netCalls = 0
    /\ store = {Sample("etl1", MaxId - 1)}
    /\ nextId = MaxId
    /\ schema = TRUE
    /\ last = NoCall

NextOps ==
    \/ Create \/ GetById \/ GetByName \/ ListAll \/ UpdateColumn \/ Enable
    \/ Disable \/ Delete \/ BulkUpsertFew
    \/ ExecuteSqlFile \/ DropSchema \/ SchemaExists \/ GetPipelineCount
    \/ TestConnection

SpecOps == InitOps /\ [][NextOps]_vars

(* ------------------- the runner commands init and reset --------------- *)

(* str.lower() on the answers an operator types. *)
lower(response) ==
    CASE response = "Y" -> "y"
      [] response = "YES" -> "yes"
      [] OTHER -> response

(* What an operator types at a prompt. *)
Answers == {"y", "Y", "n", "yes", "YES", ""}

(* cmd_init goes on to drop_schema unless response.lower() != 'y'. *)
RecreateConfirmed(response) == ~(lower(response) # "y")

ResetConfirmed_lowered(confirm) == ~(lower(confirm) # "yes")

(* cmd_reset goes on to drop_schema unless confirm != 'yes'. *)
ResetConfirmed(confirm) == ~(confirm # "yes")

(* The pipelines of examples.yaml that cmd_seed loads. *)
ExamplesYaml == <<Pipeline("etl1", "b")>>

(* The operator answered a prompt, or the command got to a line that makes *)
(* no call: only the position of the command changes.                      *)
CliMoves(cli) ==
    /\ last' = [last EXCEPT !.cli = cli]
    /\ UNCHANGED <<now, token_lifetime, netCalls, store, nextId, schema>>

(* `runner.py init` is typed: a new process, whose DatabricksAuth has an   *)
(* empty cache, enters cmd_init.                                           *)
CmdInit ==
    /\ last.cli.pc = "idle"
    /\ token' = None
    /\ token_expiry' = None
    /\ CliMoves([cmd |-> "init", pc |-> "schema_exists", trace |-> <<>>])

(* if schema_manager.schema_exists(): *)
InitSchemaExists ==
    /\ last.cli.pc = "schema_exists"
    /\ SchemaExists

(* response = input("Recreate? (y/n): ") and the return on a refusal *)
InitRecreate ==
    /\ last.cli.pc = "recreate"
    /\ \E response \in Answers :
         CliMoves([last.cli EXCEPT
                      !.trace = Append(@, Answered("recreate", response)),
                      !.pc = IF RecreateConfirmed(response) THEN "init_drop"
                             ELSE "idle"])
    /\ UNCHANGED <<token, token_expiry>>

(* schema_manager.drop_schema() of cmd_init *)
InitDropSchema ==
    /\ last.cli.pc = "init_drop"
    /\ DropSchema

(* schema_manager.execute_sql_file(str(schema_file)) *)
InitExecuteSqlFile ==
    /\ last.cli.pc = "execute_sql_file"
    /\ ExecuteSqlFile

(* if examples_file.exists(): the prompt to load the examples; cmd_seed    *)
(* returns before any call when the file holds no pipelines.               *)
InitExamples ==
    /\ last.cli.pc = "examples"
    /\ \/ CliMoves([last.cli EXCEPT !.pc = "idle"])
       \/ \E response \in Answers, empty \in BOOLEAN :
             CliMoves([last.cli EXCEPT
                          !.trace = Append(@, Answered("examples", response)),
                          !.pc = IF lower(response) = "y" /\ ~empty
                                 THEN "cmd_seed" ELSE "idle"])
    /\ UNCHANGED <<token, token_expiry>>

(* count = pipeline_repo.bulk_upsert(pipelines) of cmd_seed *)
InitSeed ==
    /\ last.cli.pc = "cmd_seed"
    /\ BulkUpsertCall(ExamplesYaml)

(* `runner.py reset` is typed: a new process enters cmd_reset, which reads *)
(* confirm = input("Continue? (type 'yes'): ") and returns on a refusal.   *)
CmdReset ==
    /\ last.cli.pc = "idle"
    /\ token' = None
    /\ token_expiry' = None
    /\ \E confirm \in Answers :
         CliMoves([cmd |-> "reset",
                   pc |-> IF ResetConfirmed(confirm) THEN "reset_drop" ELSE "idle",
                   trace |-> <<Answered("reset", confirm)>>])

(* schema_manager.drop_schema() of cmd_reset, followed by cmd_init([]) *)
ResetDropSchema ==
    /\ last.cli.pc = "reset_drop"
    /\ DropSchema

(* A table of one row whose sequence has two ids left. *)
InitCli ==
    /\ now = 0
    /\ token_lifetime = LongLifetime
    /\ token = None
    /\ token_expiry = None
    /\ netCalls = 0
    /\ store = {Sample("etl1", MaxId - 2)}
    /\ nextId = MaxId - 1
    /\ schema = TRUE
    /\ last = NoCall

NextCli ==
    \/ CmdInit \/ InitSchemaExists \/ InitRecreate \/ InitDropSchema
    \/ InitExecuteSqlFile \/ InitExamples \/ InitSeed
    \/ CmdReset \/ ResetDropSchema

SpecCli == InitCli /\ [][NextCli]_vars

(* ------------------------------ claims -------------------------------- *)

Has(events, ev) == \E i \in DOMAIN events : events[i] = ev

(* The cache held a token that was inside its refresh window when the      *)
(* last call started.                                                      *)
WasFresh ==
    /\ last.pre_token # None
    /\ last.pre_now < last.pre_expiry - RefreshThresholdSec

(* C1: a get_token call without force_refresh that starts with a cached    *)
(* token and now < expiry - 5 minutes returns the cached token and sends   *)
(* no request; so a refreshing call and the call after it, still inside    *)
(* the window, send one request together; and a call that starts with a    *)
(* cached token once the clock has reached expiry - 5 minutes sends one.   *)
C1_CachedInsideWindow ==
    (last.op = "get_token" /\ ~last.force) =>
        /\ WasFresh =>
              /\ last.calls = 0
              /\ last.err = "none"
              /\ last.ret = last.pre_token
              /\ token = last.pre_token /\ token_expiry = last.pre_expiry
        /\ (WasFresh /\ last.prev_op = "get_token" /\ last.prev_err = "none"
                /\ last.prev_calls = 1)
              => last.prev_calls + last.calls = 1
        /\ (last.pre_token # None
                /\ last.pre_now >= last.pre_expiry - RefreshThresholdSec)
              => last.calls = 1

(* C1 witness: the call right after a refreshing call is served from the   *)
(* cache.                                                                  *)
C1_Witness ==
    /\ last.op = "get_token" /\ ~last.force
    /\ last.prev_op = "get_token" /\ last.prev_calls = 1 /\ last.prev_err = "none"
    /\ WasFresh
    /\ last.calls = 0 /\ last.ret = last.pre_token

(* C2: a scoped block that raises is rolled back and never committed, and  *)
(* the row it wrote is not in the table; a block that returns is           *)
(* committed, and when the scope is left without an exception the row it   *)
(* wrote is in the table.                                                  *)
C2_CommitOrRollback ==
    (last.op = "scoped" /\ last.block # "notrun") =>
        /\ Has(last.events, "commit") <=> last.block = "none"
        /\ last.block # "none" =>
              /\ Has(last.events, "rollback")
              /\ last.wrote => RowsNamed(store, last.name) = {}
        /\ (last.block = "none" /\ last.err = "none" /\ last.wrote)
              => RowsNamed(store, last.name) # {}

(* C2 witness: a block wrote a row and then raised.                        *)
C2_Witness ==
    /\ last.op = "scoped" /\ last.wrote
    /\ last.block = "BlockError"
    /\ Has(last.events, "rollback")
    /\ RowsNamed(store, last.name) = {}

(* C3: whenever the block of get_connection was entered, the connection    *)
(* is closed when the call ends, and close is the last thing done.         *)
C3_ClosedOnEveryExit ==
    (last.op = "scoped" /\ last.block # "notrun") =>
        /\ last.conn = "closed"
        /\ last.events[Len(last.events)] = "close"

(* C3 witness: the block returned, the commit raised, the connection is    *)
(* closed.                                                                 *)
C3_Witness ==
    /\ last.op = "scoped" /\ last.block = "none"
    /\ Has(last.events, "commit") /\ last.err # "none"
    /\ last.conn = "closed"

(* C4: when the caller's block raises, the transaction is rolled back and  *)
(* the exception that reaches the caller is the one the block raised.      *)
C4_BlockFailurePassedThrough ==
    (last.op = "scoped" /\ last.block \notin {"none", "notrun"}) =>
        /\ Has(last.events, "rollback")
        /\ last.err = last.block

(* C5: when the connect fails, the caller gets the connection error of     *)
(* get_connection and the block is not run.                                *)
C5_ConnectFailureSurfaces ==
    (last.op = "scoped" /\ last.block = "notrun" /\ Has(last.events, "connect")) =>
        last.err = "LakebaseConnectFailed"

(* C6: get_token(force_refresh = true) sends a request whatever the cache  *)
(* holds.                                                                  *)
C6_ForceAlwaysRequests ==
    (last.op = "get_token" /\ last.force) =>
        /\ last.calls = 1
        /\ last.events = <<"request">>

(* C6 witness: a forced call over a token inside its refresh window.       *)
C6_Witness ==
    /\ last.op = "get_token" /\ last.force
    /\ WasFresh
    /\ last.calls = 1

(* C7: invalidate leaves token and expiry both empty, and the get_token    *)
(* call that follows it sends a request, forced or not.                    *)
C7_InvalidateThenLive ==
    /\ last.op = "invalidate" => (token = None /\ token_expiry = None)
    /\ (last.op = "get_token" /\ last.prev_op = "invalidate") =>
          (last.pre_token = None /\ last.pre_expiry = None /\ last.calls = 1)

(* C7 witness: an unforced get_token right after invalidate, at a time     *)
(* when an earlier token had been issued.                                  *)
C7_Witness ==
    /\ last.op = "get_token" /\ ~last.force /\ last.prev_op = "invalidate"
    /\ last.calls = 1 /\ last.err = "none"
    /\ last.ret >= 2

(* C8: after a refresh that succeeded, the cache holds the token the       *)
(* endpoint has just issued and the expiry clock + lifetime, the clock     *)
(* being read when the response is in, and the call returns that token;    *)
(* token and expiry are both set or both empty.                            *)
C8_RefreshCachesPair ==
    /\ (last.op = "get_token" /\ last.calls = 1 /\ last.err = "none") =>
          /\ last.ret # None /\ last.ret # last.pre_token
          /\ token = last.ret
          /\ token_expiry = last.end_now + token_lifetime
    /\ token = None <=> token_expiry = None

(* C8 witness: a refresh that replaced an older token while the clock      *)
(* moved during the request.                                               *)
C8_Witness ==
    /\ last.op = "get_token" /\ last.calls = 1 /\ last.err = "none"
    /\ last.pre_token # None
    /\ last.end_now > last.pre_now
    /\ token = last.ret

(* C9: a get_token call whose request fails (network error, non-2xx        *)
(* status, malformed body) raises the token-request error of               *)
(* get_oauth_token after one request.                                      *)
C9_FailedRequestIsAuthError ==
    (last.op = "get_token" /\ last.resp \notin {"-", "ok"}) =>
        /\ last.err = "OAuthRequestFailed"
        /\ last.calls = 1

(* C10: update with a field outside the allow-list raises the invalid      *)
(* field error, sends no token request, opens no connection, runs no       *)
(* statement, and leaves the table as it was.                              *)
C10_InvalidFieldRejectedFirst ==
    [][(last'.op = "update" /\ last'.field \notin allowed_fields) =>
          /\ last'.err = "InvalidField"
          /\ last'.events = <<>>
          /\ last'.calls = 0
          /\ netCalls' = netCalls
          /\ store' = store]_vars

(* C10 witness: update of "id" on a name the table holds was rejected.     *)
C10_Witness ==
    /\ last.op = "update" /\ last.field = "id"
    /\ last.err = "InvalidField"
    /\ RowsNamed(store, last.name) # {}


(* C11: when a bulk_upsert call fails, whichever statement or step failed, *)
(* the table after the call equals the table before it, also when          *)
(* statements of the call had already written rows.                        *)
C11_BulkUpsertAllOrNothing ==
    [][(last'.op = "bulk_upsert" /\ last'.err # "none") => store' = store]_vars

C11_Witness ==
    /\ last.op = "bulk_upsert"
    /\ last.err # "none"
    /\ last.block # "notrun"
    /\ last.wrote
    /\ Len(last.list) = 2


UniqueNames(rows) == \A r1, r2 \in rows : r1.name = r2.name => r1 = r2

(* C12: after any sequence of create, bulk_upsert, update and delete calls *)
(* the table holds at most one row per name; a create whose name the table *)
(* holds fails, on the store's unique constraint when its INSERT is sent,  *)
(* and leaves the table unchanged; a bulk_upsert that returns leaves one   *)
(* row for each name of its list, also for the names the table held.       *)
C12_OneRowPerName ==
    [][/\ UniqueNames(store')
       /\ (last'.op = "create" /\ NameTaken(store, last'.name)) =>
              /\ last'.err # "none"
              /\ store' = store
              /\ (last'.block # "notrun"
                    /\ BindError(last'.list_after[1]) = "none")
                    => last'.block = "DbError"
       /\ (last'.op = "bulk_upsert" /\ last'.err = "none") =>
              \A i \in DOMAIN last'.list :
                  Cardinality(RowsNamed(store', last'.list[i].name)) = 1
      ]_vars

C12_Witness ==
    /\ last.op = "create"
    /\ last.block = "DbError"
    /\ last.err # "none"
    /\ BindError(last.list_after[1]) = "none"
    /\ Cardinality(RowsNamed(store, last.name)) = 1
    /\ Cardinality(store) = 2


Count(events, ev) == Cardinality({i \in DOMAIN events : events[i] = ev})

(* The operations of PipelineRepository and SchemaManager. *)
StoreOps ==
    {"create", "get_by_id", "get_by_name", "list_all", "update", "enable",
     "disable", "delete", "bulk_upsert", "execute_sql_file", "drop_schema",
     "schema_exists", "get_pipeline_count"}

(* C13: a PipelineRepository or SchemaManager call opens at most one       *)
(* connection and one scope; when its block ran it opened exactly one      *)
(* connection, before the block, and closed it as its last step; whether   *)
(* the call returned or failed, no connection is open after it.            *)
C13_OneConnectionPerCall ==
    last.op \in StoreOps =>
        /\ Count(last.events, "connect") <= 1
        /\ Count(last.events, "block") <= 1
        /\ Count(last.events, "close") <= 1
        /\ last.conn \in {"closed", "unbound"}
        /\ Has(last.events, "block") =>
              /\ Count(last.events, "connect") = 1
              /\ Count(last.events, "close") = 1
              /\ last.events[Len(last.events)] = "close"
              /\ last.conn = "closed"
              /\ \A i, j \in DOMAIN last.events :
                    (last.events[i] = "connect" /\ last.events[j] = "block") => i < j
        /\ ~Has(last.events, "block") =>
              /\ last.conn = "unbound"
              /\ ~Has(last.events, "close")

C13_Witness ==
    /\ last.op = "drop_schema"
    /\ last.err # "none"
    /\ Has(last.events, "block")
    /\ last.conn = "closed"
    /\ store # {}

(* C14: test_connection raises nothing; it returns true exactly when the   *)
(* token was obtained, the connection opened, SELECT 1 ran and answered 1, *)
(* the commit went through and the connection closed; it returns false for *)
(* a failure of any of these steps.                                        *)
C14_TestConnectionNeverRaises ==
    last.op = "test_connection" =>
        /\ last.err = "none"
        /\ last.ret \in BOOLEAN
        /\ last.ret <=>
              /\ Has(last.events, "connect")
              /\ last.block = "none"
              /\ last.value = 1
              /\ Has(last.events, "commit")
              /\ ~Has(last.events, "rollback")
              /\ Has(last.events, "close")
              /\ ~Has(last.events, "close_error")

C14_Witness ==
    /\ last.op = "test_connection"
    /\ last.ret = FALSE
    /\ Has(last.events, "connect")
    /\ ~Has(last.events, "block")


Columns ==
    {"id", "name", "type", "schedule", "enabled", "config", "owner", "description"}

(* C15: an update(name, field, value) with an allow-listed field that      *)
(* returns true leaves every row of another name as it was and adds or     *)
(* removes none; the row of that name keeps every column but field, id and *)
(* name included.                                                          *)
C15_UpdateTouchesOneField ==
    [][(last'.op = "update" /\ last'.err = "none" /\ last'.ret = TRUE
            /\ last'.field \in allowed_fields) =>
          /\ \A r \in store : r.name # last'.name => r \in store'
          /\ \A r \in store' : r.name # last'.name => r \in store
          /\ Cardinality(RowsNamed(store', last'.name)) = 1
          /\ \A r \in RowsNamed(store, last'.name) :
                \A q \in RowsNamed(store', last'.name) :
                    \A f \in Columns \ {last'.field} : q[f] = r[f]
      ]_vars

C15_Witness ==
    /\ last.op = "update"
    /\ last.field = "config"
    /\ last.ret = TRUE
    /\ \E r \in RowsNamed(store, last.name) : r.config = <<"jsonb", "x2">>
    /\ Sample("etl0", 2) \in store

(* C16: update, enable, disable and delete that do not fail return true    *)
(* exactly when the table held a row of the name when the call started; a  *)
(* call that returns false leaves the table unchanged; and a name the      *)
(* table lacks makes no call fail: when its statement and commit go        *)
(* through, the call returns false.                                        *)
C16_TrueIffRowExisted ==
    [][(last'.op \in {"update", "enable", "disable", "delete"}) =>
          /\ last'.err = "none" =>
                /\ last'.ret = TRUE <=> NameTaken(store, last'.name)
                /\ last'.ret = FALSE => store' = store
          /\ (~NameTaken(store, last'.name) /\ last'.block = "none"
                /\ ~Has(last'.events, "rollback"))
                => (last'.err = "none" /\ last'.ret = FALSE)
      ]_vars

C16_Witness ==
    /\ last.op = "delete"
    /\ last.name = "etl1"
    /\ last.err = "none"
    /\ last.ret = FALSE
    /\ last.block = "none"
    /\ store # {}


(* C17: a get_by_name(n) that returns right after a create of a dict named *)
(* n succeeded finds a record whose schedule and config equal those of the *)
(* dict passed; right after a disable(n) that returned true, a record with *)
(* enabled false; right after a delete(n) that returned true, nothing.     *)
C17_RoundTrip ==
    [][(last'.op = "get_by_name" /\ last'.err = "none" /\ last'.name = last.name) =>
          /\ (last.op = "create" /\ last.err = "none") =>
                /\ Cardinality(last'.rows) = 1
                /\ \A d \in last'.rows :
                      /\ d.schedule = last.list[1].schedule
                      /\ d.config = last.list[1].config
                      /\ d.name = last.name
                      /\ d.id = last.ret
          /\ (last.op = "disable" /\ last.err = "none" /\ last.ret = TRUE) =>
                /\ Cardinality(last'.rows) = 1
                /\ \A d \in last'.rows : d.enabled = FALSE
          /\ (last.op = "delete" /\ last.err = "none" /\ last.ret = TRUE) =>
                last'.rows = {}
      ]_vars

C17_Witness ==
    /\ last.op = "get_by_name"
    /\ last.err = "none"
    /\ last.prev_op = "create"
    /\ Cardinality(store) = 1
    /\ \E d \in last.rows : d.config = <<"dict", "x2">> /\ d.schedule = "0 2 * * *"


(* C18: a bulk_upsert that succeeds on the list object the successful      *)
(* bulk_upsert just before it processed, whose configs that call left      *)
(* serialized, leaves the table as the first call left it.                 *)
C18_ResubmitSameList ==
    [][(last.op = "bulk_upsert" /\ last.err = "none"
            /\ last'.op = "bulk_upsert" /\ last'.err = "none"
            /\ last'.list = last.list_after)
          => store' = store]_vars

C18_Witness ==
    /\ last.op = "bulk_upsert"
    /\ last.err = "none"
    /\ Len(last.list) = 2
    /\ last.list[1].config[1] = "str"
    /\ last.list[1].name # last.list[2].name

(* The last dict of the list that has the name n. *)
LastNamed(list, n) ==
    list[CHOOSE i \in DOMAIN list :
            /\ list[i].name = n
            /\ \A j \in DOMAIN list : list[j].name = n => j <= i]

MutableFields == {"type", "schedule", "enabled", "owner", "description"}

(* C19: after a bulk_upsert that succeeds, each name of the list has one   *)
(* row, whose type, schedule, enabled, config, owner and description are   *)
(* those of the last dict of that name in the list and whose id is the id  *)
(* of the row the table held under that name, if it held one; the rows of  *)
(* other names are unchanged; the call returns the length of the list.     *)
C19_LastRecordWins ==
    [][(last'.op = "bulk_upsert" /\ last'.err = "none") =>
          /\ last'.ret = Len(last'.list)
          /\ \A i \in DOMAIN last'.list :
                LET n == last'.list[i].name
                    p == LastNamed(last'.list, n) IN
                /\ Cardinality(RowsNamed(store', n)) = 1
                /\ \A r \in RowsNamed(store', n) :
                      /\ \A f \in MutableFields : r[f] = p[f]
                      /\ r.config = <<"jsonb", p.config[2]>>
                      /\ \A o \in RowsNamed(store, n) : r.id = o.id
          /\ \A r \in store \cup store' :
                (\A i \in DOMAIN last'.list : last'.list[i].name # r.name)
                    => (r \in store /\ r \in store')
      ]_vars

C19_Witness ==
    /\ last.op = "bulk_upsert"
    /\ last.err = "none"
    /\ last.ret = 2
    /\ last.list[1].name = "etl1" /\ last.list[2].name = "etl1"
    /\ last.list[1].type # last.list[2].type
    /\ \E r \in store :
          r.name = "etl1" /\ r.id = MaxId - 4 /\ r.type = last.list[2].type
    /\ Cardinality(store) = 2

(* The error kinds that tell the caller its input is invalid: the          *)
(* ValueError of update.                                                   *)
ValidationErrors == {"InvalidField"}

(* C20: a create whose dict lacks a key of the record fails with a         *)
(* validation error and leaves the table unchanged.                        *)
C20_MissingFieldRejected ==
    [][(last'.op = "create" /\ ~(PipelineKeys \subseteq last'.list[1].keys)) =>
          /\ last'.err \in ValidationErrors
          /\ store' = store
      ]_vars


(* C21: in a repository or schema call, a connect is made with the token   *)
(* get_oauth_token returned as its password, after any token request of    *)
(* the call; when the token request fails, no connect is made, the block   *)
(* is not run and the caller gets the token provider's request failure.    *)
C21_TokenBeforeConnect ==
    last.op \in StoreOps =>
        /\ Has(last.events, "connect") =>
              /\ last.password # None
              /\ last.password = token
              /\ \A i, j \in DOMAIN last.events :
                    (last.events[i] = "request" /\ last.events[j] = "connect")
                        => i < j
        /\ (last.calls = 1 /\ last.resp # "ok") =>
              /\ ~Has(last.events, "connect")
              /\ ~Has(last.events, "block")
              /\ last.block = "notrun"
              /\ last.err = "OAuthRequestFailed"

(* The answers that confirm: 'y' to the recreate prompt of init, in either *)
(* case, and 'yes' to the prompt of reset.                                 *)
Confirmations ==
    {Answered("recreate", "y"), Answered("recreate", "Y"), Answered("reset", "yes")}

Refusals(trace) ==
    {i \in DOMAIN trace :
        trace[i].kind \in {"recreate", "reset"} /\ trace[i] \notin Confirmations}

Calls(trace, op) == {j \in DOMAIN trace : trace[j] = Called(op)}

(* C22: within one init or reset command, drop_schema is called only after *)
(* the operator confirmed at the prompt of that command; a command whose   *)
(* confirmation was refused calls neither drop_schema nor                  *)
(* execute_sql_file; and in reset every execute_sql_file comes after a     *)
(* drop_schema.                                                            *)
C22_DropOnlyAfterConfirmation ==
    LET t == last.cli.trace
    IN  /\ \A j \in Calls(t, "drop_schema") :
              \E i \in 1..(j - 1) : t[i] \in Confirmations
        /\ Refusals(t) # {} =>
              Calls(t, "drop_schema") \cup Calls(t, "execute_sql_file") = {}
        /\ last.cli.cmd = "reset" =>
              \A j \in Calls(t, "execute_sql_file") :
                  \E i \in Calls(t, "drop_schema") : i < j

(* A reset the operator confirmed dropped the schema and then ran the      *)
(* schema script.                                                          *)
C22_Witness ==
    /\ last.cli.cmd = "reset"
    /\ last.cli.trace[1] = Answered("reset", "yes")
    /\ last.op = "execute_sql_file"
    /\ last.err = "none"
    /\ schema
    /\ Calls(last.cli.trace, "drop_schema") # {}
    /\ Calls(last.cli.trace, "execute_sql_file") # {}

(* C23: a get_token call that fails leaves the cached token and expiry as  *)
(* they were when it started; so after a failed get_token(force_refresh)   *)
(* over a fresh cache, the next get_token() that starts inside the refresh *)
(* window of that cache returns the token cached before and sends no       *)
(* request.                                                                *)
C23_FailedRefreshKeepsCache ==
    [][/\ (last'.op = "get_token" /\ last'.err # "none") =>
              /\ token' = last'.pre_token
              /\ token_expiry' = last'.pre_expiry
       /\ (/\ last.op = "get_token" /\ last.force /\ last.err # "none"
           /\ WasFresh
           /\ last'.op = "get_token" /\ ~last'.force
           /\ last'.pre_now < last.pre_expiry - RefreshThresholdSec) =>
              /\ last'.err = "none"
              /\ last'.ret = last.pre_token
              /\ last'.calls = 0]_vars

(* A get_token() served from the cache right after a call that sent a      *)
(* request and failed.                                                     *)
C23_Witness ==
    /\ last.op = "get_token" /\ ~last.force
    /\ last.prev_op = "get_token" /\ last.prev_err # "none" /\ last.prev_calls = 1
    /\ WasFresh
    /\ last.calls = 0
    /\ last.ret = last.pre_token

(* C24: with a token lifetime of at most 300 seconds every get_token call  *)
(* sends a request, the cache is never served; with a longer lifetime the  *)
(* get_token() that follows a refresh is served from the cache exactly     *)
(* when it starts less than lifetime - 300 seconds after the refresh.      *)
C24_ServedForLifetimeMinusWindow ==
    [][/\ (token_lifetime <= RefreshThresholdSec /\ last'.op = "get_token") =>
              last'.calls = 1
       /\ (/\ token_lifetime > RefreshThresholdSec
           /\ last.op = "get_token" /\ last.calls = 1 /\ last.err = "none"
           /\ last'.op = "get_token" /\ ~last'.force /\ last' # last) =>
              (last'.calls = 0 <=>
                  last'.pre_now - last.end_now < token_lifetime - RefreshThresholdSec)
      ]_vars

(* With a lifetime of exactly 300 seconds, a get_token() made at the very  *)
(* instant the cached token was obtained sent a request.                   *)
C24_Witness ==
    /\ token_lifetime = RefreshThresholdSec
    /\ last.op = "get_token" /\ ~last.force
    /\ last.prev_op = "get_token" /\ last.prev_calls = 1 /\ last.prev_err = "none"
    /\ last.pre_token # None
    /\ last.pre_now + token_lifetime = last.pre_expiry
    /\ last.calls = 1

====
